---- MODULE Spec2Model ----
(***************************************************************************)
(* A model of yaml2dataclass's code generator                              *)
(* (src/yaml2dataclass/generate_dataclass.py): DataclassGenerator.generate *)
(* walks the value tree YAMLReader.load_yaml returns, builds one           *)
(* DataclassBuilder per map it visits and writes one file per builder.     *)
(*                                                                         *)
(* Python strings are sequences of one-character strings, so that strip,   *)
(* split, lower, title, the regular expression of CommentTypeParser and    *)
(* sorted() are computed character by character.  None is the empty tuple  *)
(* and Some(x) the one-element tuple <<x>> wherever a value is Optional.   *)
(***************************************************************************)
EXTENDS Integers, Sequences, FiniteSets, TLC

(***************************************************************************)
(* Characters and strings.                                                 *)
(***************************************************************************)
LowerCase == <<"a","b","c","d","e","f","g","h","i","j","k","l","m",
               "n","o","p","q","r","s","t","u","v","w","x","y","z">>
UpperCase == <<"A","B","C","D","E","F","G","H","I","J","K","L","M",
               "N","O","P","Q","R","S","T","U","V","W","X","Y","Z">>
Digits == <<"0","1","2","3","4","5","6","7","8","9">>

Range(s) == {s[i] : i \in DOMAIN s}
IndexOf(s, c) == CHOOSE i \in DOMAIN s : s[i] = c

IsLower(c) == c \in Range(LowerCase)
IsUpper(c) == c \in Range(UpperCase)
IsCased(c) == IsLower(c) \/ IsUpper(c)
\* the class \w of the re module, on the characters of the model
IsWordChar(c) == IsCased(c) \/ c \in Range(Digits) \/ c = "_"
\* the characters str.strip() removes
Whitespace == {" ", "\t", "\n"}

\* ord(c): the characters in code point order, the order sorted() compares by
CodeOrder == <<"\t", "\n", " ", "#", ",", ".", "/">> \o Digits \o <<":", "@">>
             \o UpperCase \o <<"[", "]", "_">> \o LowerCase
Ord(c) == IndexOf(CodeOrder, c)

ToLower(c) == IF IsUpper(c) THEN LowerCase[IndexOf(UpperCase, c)] ELSE c
ToUpper(c) == IF IsLower(c) THEN UpperCase[IndexOf(LowerCase, c)] ELSE c

\* str.lower()
Lower(s) == [i \in DOMAIN s |-> ToLower(s[i])]
\* str.title(): a cased character is upper-cased after an uncased one (or
\* at the start) and lower-cased after a cased one
Title(s) == [i \in DOMAIN s |->
               IF i > 1 /\ IsCased(s[i-1]) THEN ToLower(s[i]) ELSE ToUpper(s[i])]

Slice(s, a, b) == [i \in 1..(b - a + 1) |-> s[a + i - 1]]

\* str.strip(chars): drop the leading and trailing characters in chars
StripChars(s, chars) ==
    LET keep == {i \in DOMAIN s : s[i] \notin chars}
    IN  IF keep = {} THEN <<>>
        ELSE Slice(s, CHOOSE i \in keep : \A j \in keep : i <= j,
                      CHOOSE i \in keep : \A j \in keep : j <= i)
\* str.strip()
Strip(s) == StripChars(s, Whitespace)

\* str.split(sep) for a one-character separator
RECURSIVE Split(_, _)
Split(s, sep) ==
    IF \A i \in DOMAIN s : s[i] # sep THEN <<s>>
    ELSE LET p == CHOOSE i \in DOMAIN s :
                      s[i] = sep /\ \A j \in 1..(i-1) : s[j] # sep
         IN  <<Slice(s, 1, p - 1)>> \o Split(Slice(s, p + 1, Len(s)), sep)

\* sep.join(parts)
RECURSIVE Join(_, _)
Join(parts, sep) ==
    IF parts = <<>> THEN <<>>
    ELSE IF Len(parts) = 1 THEN parts[1]
    ELSE parts[1] \o sep \o Join(Tail(parts), sep)

\* a < b for Python strings: lexicographic by code point
RECURSIVE StrLess(_, _)
StrLess(a, b) ==
    IF b = <<>> THEN FALSE
    ELSE IF a = <<>> THEN TRUE
    ELSE IF a[1] # b[1] THEN Ord(a[1]) < Ord(b[1])
    ELSE StrLess(Tail(a), Tail(b))

(***************************************************************************)
(* TypeAnnotation, Name.                                                   *)
(***************************************************************************)
None == <<>>
Some(x) == <<x>>
\* Python's truth test of an Optional[str] or Optional[List]: neither None
\* nor empty
Truthy(opt) == opt # None /\ opt[1] # <<>>

TypeAnnotation(generic_type, type_params) ==
    [generic_type |-> generic_type, type_params |-> type_params]

ToParamterizedType(ta) ==
    IF Truthy(ta.type_params)
    THEN ta.generic_type \o <<"[">> \o Join(ta.type_params[1], <<",", " ">>)
         \o <<"]">>
    ELSE ta.generic_type

RECURSIVE Concat(_)
Concat(parts) == IF parts = <<>> THEN <<>> ELSE parts[1] \o Concat(Tail(parts))

\* Name.to_pascal_case
ToPascalCase(name) ==
    LET comps == Split(name, "_")
    IN  Concat([i \in DOMAIN comps |-> Title(comps[i])])
\* Name.to_snake_case
ToSnakeCase(name) == name

(***************************************************************************)
(* CommentTypeParser.parse.  re.findall scans from the left and the loop   *)
(* returns at the first match; both alternatives of the pattern start with *)
(* a word character, so the first match starts at the first word character *)
(* of the text and takes the whole run of word characters from there.      *)
(***************************************************************************)
Raised == [ok |-> FALSE, ta |-> TypeAnnotation(<<>>, None)]
Returned(ta) == [ok |-> TRUE, ta |-> ta]

\* The operators below take what the code binds to a local variable as a
\* parameter, one operator for each stretch of code that follows a binding.

\* the end of the run of word characters that starts at i: (\w+) is greedy
RunEnd(text, i) ==
    CHOOSE x \in i..Len(text) :
        /\ \A y \in i..x : IsWordChar(text[y])
        /\ (x = Len(text) \/ ~IsWordChar(text[x+1]))

\* the first "]" at or after position from; 0 when there is none
FirstCloser(text, from) ==
    LET closers == {k \in from..Len(text) : text[k] = "]"}
    IN  IF closers = {} THEN 0
        ELSE CHOOSE x \in closers : \A y \in closers : x <= y

\* the groups of the match of the word text[i..j]: the first alternative
\* needs "[" right after the word, then at least one character that is
\* not "]", then "]" (at k); the second alternative is the word alone
MatchGroups(text, i, j, k) ==
    IF j < Len(text) /\ text[j+1] = "[" /\ k >= j + 3
    THEN <<Slice(text, i, j), Slice(text, j+2, k-1), <<>>>>
    ELSE <<<<>>, <<>>, Slice(text, i, j)>>

MatchRun(text, i, j) == MatchGroups(text, i, j, FirstCloser(text, j + 2))

\* the first match of (\w+)\[([^\]]+)\]|\b(\w+)\b in text, as the groups
\* findall gives: Some(<<g1, g2, g3>>), or None when nothing matches
FirstMatch(text) ==
    LET words == {i \in DOMAIN text : IsWordChar(text[i])}
    IN  IF words = {} THEN None
        ELSE Some(MatchRun(text, CHOOSE x \in words : \A y \in words : x <= y,
                           RunEnd(text, CHOOSE x \in words : \A y \in words : x <= y)))

\* a variant of the loop that keeps the base of a match and loses its
\* parameters
MatchAnnotationBaseOnly(matches) ==
    IF matches = None THEN Raised
    ELSE IF matches[1][1] # <<>> /\ matches[1][2] # <<>>
    THEN Returned(TypeAnnotation(matches[1][1], None))
    ELSE IF matches[1][3] # <<>>
    THEN Returned(TypeAnnotation(matches[1][3], None))
    ELSE Raised

\* the loop over the matches, which returns in its first turn, and the raise
MatchAnnotation(matches) ==
    IF matches = None THEN Raised
    ELSE IF matches[1][1] # <<>> /\ matches[1][2] # <<>>
    THEN Returned(TypeAnnotation(matches[1][1],
             Some([p \in DOMAIN Split(matches[1][2], ",") |->
                      Strip(Split(matches[1][2], ",")[p])])))
    ELSE IF matches[1][3] # <<>>
    THEN Returned(TypeAnnotation(matches[1][3], None))
    ELSE Raised

\* a variant of parse that takes a text with no identifier as no comment
CommentParseLenient(value) ==
    IF ~Truthy(value) THEN Returned(TypeAnnotation(<<>>, None))
    ELSE IF FirstMatch(Strip(StripChars(value[1], {"#", " "}))) = None
    THEN Returned(TypeAnnotation(<<>>, None))
    ELSE MatchAnnotation(FirstMatch(Strip(StripChars(value[1], {"#", " "}))))

CommentParse(value) ==
    IF ~Truthy(value) THEN Returned(TypeAnnotation(<<>>, None))
    ELSE MatchAnnotation(FirstMatch(Strip(StripChars(value[1], {"#", " "}))))

(***************************************************************************)
(* The value tree YAMLReader.load_yaml returns.  A node is a record        *)
(* [rt, sub]: rt is the node's Python type (type(value).__name__) and sub  *)
(* the items of a dict, the elements of a list, nothing for a scalar.      *)
(* _process_commented_map wraps every entry of every map as                *)
(* {"value": ..., "comment": ...}: an item is [key, value, comment], the    *)
(* comment None or the text _extract_key_comment joined.                   *)
(***************************************************************************)
Scalar(t) == [rt |-> t, sub |-> <<>>]
Dict(items) == [rt |-> "dict", sub |-> items]
List(elems) == [rt |-> "list", sub |-> elems]
Item(key, value, comment) == [key |-> key, value |-> value, comment |-> comment]

\* type(value).__name__
TypeName(value) ==
    CASE value.rt = "int" -> <<"i","n","t">>
      [] value.rt = "str" -> <<"s","t","r">>
      [] value.rt = "list" -> <<"l","i","s","t">>
      [] value.rt = "dict" -> <<"d","i","c","t">>

\* DataclassGenerator._parse_field_metadata: every raw value is the
\* reader's wrapper, which holds 'value' and 'comment' and no 'description'
ParseFieldMetadata(raw) ==
    [value |-> raw.value, type_comment |-> raw.comment, description |-> None]

(***************************************************************************)
(* DataclassBuilder.  src and fields are history: the key path of the map  *)
(* the builder was made from, and each parameter's key and TypeAnnotation. *)
(***************************************************************************)
\* DataclassGenerator.dest_path, as_posix()
DestPath == <<"s","r","c","/","c","o","n","f","i","g">>

DefaultImports ==
    { <<"f","r","o","m"," ","d","a","t","a","c","l","a","s","s","e","s"," ",
        "i","m","p","o","r","t"," ","d","a","t","a","c","l","a","s","s">>,
      <<"f","r","o","m"," ","t","y","p","i","n","g"," ","i","m","p","o","r","t"," ",
        "O","p","t","i","o","n","a","l",","," ","L","i","s","t",","," ",
        "A","n","y",","," ","U","n","i","o","n">> }

NewBuilder(name, src) ==
    [name |-> name, imports |-> DefaultImports, parameters |-> <<>>,
     docstring |-> None, src |-> src, fields |-> <<>>]

ImportLine(path, name) ==
    LET module_path == [i \in DOMAIN path |-> IF path[i] = "/" THEN "." ELSE path[i]]
                       \o <<".">> \o ToSnakeCase(name)
    IN  <<"f","r","o","m"," ">> \o module_path
        \o <<" ","i","m","p","o","r","t"," ">> \o ToPascalCase(name)

AddImport(builder, path, name) ==
    [builder EXCEPT !.imports = @ \cup {ImportLine(path, name)}]

AddParameter(builder, key, type_annotation, description) ==
    LET param == key \o <<":", " ">> \o ToParamterizedType(type_annotation)
        full == IF Truthy(description)
                THEN param \o <<" ", " ", "#", " ">> \o description[1]
                ELSE param
    IN  [builder EXCEPT !.parameters = Append(@, full),
                        !.fields = Append(@, [key |-> key, type |-> type_annotation])]

\* a variant of build that writes the imports as the set yields them
Unsorted(order) == order

\* sorted(): insertion of each string of order, in turn, before the first
\* greater one
RECURSIVE Sorted(_)
Sorted(order) ==
    IF order = <<>> THEN <<>>
    ELSE LET rest == Sorted(Tail(order))
             x == order[1]
             before == {i \in DOMAIN rest : StrLess(rest[i], x)}
             n == Cardinality(before)
         IN  Slice(rest, 1, n) \o <<x>> \o Slice(rest, n + 1, Len(rest))

Indent == <<" ", " ", " ", " ">>

\* DataclassBuilder.build, as the lines "\n" joins; order is the order in
\* which iterating the set self.imports yields its strings
Build(builder, order) ==
    LET imports == Sorted(order)
        class_def == << <<"@","d","a","t","a","c","l","a","s","s">>,
                        <<"c","l","a","s","s"," ">> \o ToPascalCase(builder.name)
                            \o <<":">> >>
                     \o (IF Truthy(builder.docstring)
                         THEN <<Indent \o <<"\"", "\"", "\"">> \o builder.docstring[1]
                                 \o <<"\"", "\"", "\"">> >>
                         ELSE <<>>)
        parameters == IF builder.parameters = <<>> THEN <<Indent>>
                      ELSE [i \in DOMAIN builder.parameters |->
                               Indent \o builder.parameters[i]]
    IN  imports \o << <<>> >> \o class_def \o parameters

(***************************************************************************)
(* The handlers and DataclassGenerator._generate_dataclass.  A call        *)
(* returns [ok, builder, builders]: whether it returned or raised, the     *)
(* builder it was filling and generator.builders as the call left it.      *)
(***************************************************************************)
Outcome(ok, builder, builders) ==
    [ok |-> ok, builder |-> builder, builders |-> builders]

\* a variant that types the field with the key as written
DictTypeAnnotationByKey(name, type_comment) ==
    IF Truthy(type_comment) THEN CommentParse(type_comment)
    ELSE Returned(TypeAnnotation(ToSnakeCase(name), None))

\* DictValueHandler.handle: the type of the field
DictTypeAnnotation(name, type_comment) ==
    IF Truthy(type_comment) THEN CommentParse(type_comment)
    ELSE Returned(TypeAnnotation(ToPascalCase(name), None))

\* ListValueHandler.handle, first element a dict: the type of the field
ListOfDictTypeAnnotation(name, type_comment) ==
    IF Truthy(type_comment) THEN CommentParse(type_comment)
    ELSE Returned(TypeAnnotation(<<"l","i","s","t">>, Some(<<ToPascalCase(name)>>)))

\* a variant that leaves the nested builder its name
NestedBuilderNameKept(nested_name, type_comment, type_annotation) == nested_name

\* ListValueHandler.handle, first element a dict: the nested builder's name
NestedBuilderName(nested_name, type_comment, type_annotation) ==
    IF /\ Truthy(type_comment)
       /\ Truthy(type_annotation.type_params)
       /\ type_annotation.generic_type = <<"l","i","s","t">>
    THEN Lower(type_annotation.type_params[1][1])
    ELSE nested_name

\* a variant that does not look at the first element
ListTypeAnnotationAny(value, type_comment) ==
    IF type_comment # None THEN CommentParse(type_comment)
    ELSE Returned(TypeAnnotation(<<"l","i","s","t">>, Some(<< <<"A","n","y">> >>)))

\* ListValueHandler.handle, the other lists: the type of the field
ListTypeAnnotation(value, type_comment) ==
    LET item_type == IF value.sub # <<>> THEN TypeName(value.sub[1])
                     ELSE <<"A","n","y">>
    IN  IF type_comment # None THEN CommentParse(type_comment)
        ELSE Returned(TypeAnnotation(<<"l","i","s","t">>, Some(<<item_type>>)))

\* ValueTypeParser.parse
ValueParse(value) == TypeAnnotation(TypeName(value), None)

\* a variant that types a scalar by its value alone
ScalarTypeAnnotationByValue(value, type_comment) == Returned(ValueParse(value))

\* _generate_dataclass, no handler for the value: the type of the field
ScalarTypeAnnotation(value, type_comment) ==
    IF Truthy(type_comment) THEN CommentParse(type_comment)
    ELSE Returned(ValueParse(value))

RECURSIVE GenerateDataclass(_, _, _, _)

\* add_parameter with the type parsed, or the parser's exception
AddField(parsed, builder, builders, name, description) ==
    IF ~parsed.ok THEN Outcome(FALSE, builder, builders)
    ELSE Outcome(TRUE,
                 AddParameter(builder, ToSnakeCase(name), parsed.ta, description),
                 builders)

\* DictValueHandler.handle after the nested call: append, add_import, the
\* type, add_parameter
DictHandleNested(nested, name, type_comment, description, builder) ==
    IF ~nested.ok THEN Outcome(FALSE, builder, nested.builders)
    ELSE AddField(DictTypeAnnotation(name, type_comment),
                  AddImport(builder, DestPath, name),
                  Append(nested.builders, nested.builder),
                  name, description)

DictHandle(value, name, type_comment, description, builder, builders) ==
    DictHandleNested(
        GenerateDataclass(name, value.sub, builder.src \o <<name>>, builders),
        name, type_comment, description, builder)

\* ListValueHandler.handle, first branch, after the name of the nested
\* builder is settled: the builder renamed is the object already appended
ListHandleRenamed(nested_name, parsed, nested, name, description, builder) ==
    Outcome(TRUE,
            AddParameter(AddImport(builder, DestPath, nested_name),
                         ToSnakeCase(name), parsed.ta, description),
            Append(nested.builders, [nested.builder EXCEPT !.name = nested_name]))

\* ListValueHandler.handle, first branch, after the type is parsed
ListHandleParsed(parsed, nested, name, type_comment, description, builder) ==
    IF ~parsed.ok
    THEN Outcome(FALSE, builder, Append(nested.builders, nested.builder))
    ELSE ListHandleRenamed(
             NestedBuilderName(nested.builder.name, type_comment, parsed.ta),
             parsed, nested, name, description, builder)

\* ListValueHandler.handle, first branch, after the nested call
ListHandleNested(nested, name, type_comment, description, builder) ==
    IF ~nested.ok THEN Outcome(FALSE, builder, nested.builders)
    ELSE ListHandleParsed(ListOfDictTypeAnnotation(name, type_comment),
                          nested, name, type_comment, description, builder)

ListHandle(value, name, type_comment, description, builder, builders) ==
    IF value.sub # <<>> /\ value.sub[1].rt = "dict"
    THEN ListHandleNested(
             GenerateDataclass(name, value.sub[1].sub, builder.src \o <<name>>,
                               builders),
             name, type_comment, description, builder)
    ELSE AddField(ListTypeAnnotation(value, type_comment), builder, builders,
                  name, description)

\* self.handlers.get(type(value)) and the call of the handler, or the
\* scalar branch
Dispatch(value, name, type_comment, description, builder, builders) ==
    IF value.rt = "dict"
    THEN DictHandle(value, name, type_comment, description, builder, builders)
    ELSE IF value.rt = "list"
    THEN ListHandle(value, name, type_comment, description, builder, builders)
    ELSE AddField(ScalarTypeAnnotation(value, type_comment), builder, builders,
                  name, description)

\* one turn of the loop of _generate_dataclass
HandleField(builder, key, raw_value, builders) ==
    Dispatch(ParseFieldMetadata(raw_value).value, key,
             ParseFieldMetadata(raw_value).type_comment,
             ParseFieldMetadata(raw_value).description, builder, builders)

\* the loop of _generate_dataclass from item i on; an exception ends it
RECURSIVE GenerateFields(_, _, _, _)
NextField(r, data, i) ==
    IF ~r.ok THEN r ELSE GenerateFields(r.builder, data, i + 1, r.builders)

GenerateFields(builder, data, i, builders) ==
    IF i > Len(data) THEN Outcome(TRUE, builder, builders)
    ELSE NextField(HandleField(builder, data[i].key, data[i], builders), data, i)

GenerateDataclass(base_name, data, src, builders) ==
    GenerateFields(NewBuilder(base_name, src), data, 1, builders)

(***************************************************************************)
(* The documents generate is run on: every value tree over a few keys,     *)
(* scalar types and comments that weighs at most MaxSize, counting one for *)
(* each map item, each list element and each comment.  The walk reads only *)
(* the first element of a list; so that what follows it is not always a    *)
(* leaf, the documents that are one list of two elements are taken up to   *)
(* weight MaxSize + 2.                                                     *)
(***************************************************************************)
MaxSize == 3

Keys == { <<"a","_","b">>, <<"e","v","e","n","t">> }
ScalarTypes == {"int", "str"}
Comments ==
    { <<>>,
      <<"#"," ","s","t","r">>,
      <<"#","#","#">>,
      <<"l","i","s","t","[","E","v","e","n","t","]">>,
      <<"l","i","s","t","[","M","y","E","v","e","n","t","]">>,
      <<"#"," ","s","t","r","[","i","n","t","]">> }

RECURSIVE Maps(_), Lists(_)
\* the values whose inside weighs n
Values(n) ==
    (IF n = 0 THEN {Scalar(t) : t \in ScalarTypes} ELSE {})
    \cup {Dict(m) : m \in Maps(n)} \cup {List(l) : l \in Lists(n)}
\* the items that weigh n
Items(n) ==
    (IF n < 1 THEN {}
     ELSE {Item(k, v, None) : k \in Keys, v \in Values(n - 1)})
    \cup (IF n < 2 THEN {}
          ELSE {Item(k, v, Some(c)) : k \in Keys, v \in Values(n - 2), c \in Comments})
\* the list elements that weigh n
Elements(n) ==
    (IF n = 1 THEN {Scalar(t) : t \in ScalarTypes} ELSE {})
    \cup (IF n < 1 THEN {} ELSE {Dict(m) : m \in Maps(n - 1)})
Maps(n) ==
    IF n = 0 THEN {<<>>}
    ELSE UNION { UNION { { <<f>> \o m :
                            m \in {x \in Maps(n - j) :
                                      \A i \in DOMAIN x : x[i].key # f.key} } :
                         f \in Items(j) } : j \in 1..n }
Lists(n) ==
    IF n = 0 THEN {<<>>}
    ELSE UNION { UNION { { <<e>> \o l : l \in Lists(n - j) } :
                         e \in Elements(j) } : j \in 1..n }
\* the lists of two elements that weigh n
Pairs(n) ==
    UNION { { <<e1, e2>> : e1 \in Elements(j), e2 \in Elements(n - j) } :
            j \in 1..(n - 1) }
ListDocuments ==
    UNION { { <<Item(k, List(l), None)>> : k \in Keys, l \in Pairs(n) } :
            n \in 2..(MaxSize + 1) }
    \cup UNION { { <<Item(k, List(l), Some(c))>> :
                     k \in Keys, l \in Pairs(n), c \in Comments } :
                 n \in 2..MaxSize }
Documents == UNION {Maps(n) : n \in 0..MaxSize} \cup ListDocuments

(***************************************************************************)
(* ConfigLoader (src/yaml2dataclass/config_loader.py).  Names of classes,  *)
(* fields, paths and exceptions are strings.  What YAML(typ="safe").load   *)
(* returns is a node [rt, sub] as above, the sub of a dict a function from *)
(* its keys to nodes.  A dataclass instance is [cls, sub], sub a function  *)
(* from the field names to the values of the fields.                       *)
(***************************************************************************)
\* the classes of the program that uses the loader: the fields of a
\* dataclass in order, each with its type
Field(name, kind, arg) == [name |-> name, kind |-> kind, arg |-> arg]
ClassDefs ==
    [ Config |-> [dataclass |-> TRUE,
                  fields |-> << Field("name", "simple", "str"),
                                Field("db", "dataclass", "Db") >>],
      Tags   |-> [dataclass |-> TRUE,
                  fields |-> << Field("tags", "list", "Db") >>],
      Db     |-> [dataclass |-> TRUE,
                  fields |-> << Field("port", "simple", "int") >>],
      int    |-> [dataclass |-> FALSE, fields |-> <<>>] ]

\* dataclasses.is_dataclass
IsDataclass(cls) == cls \in DOMAIN ClassDefs /\ ClassDefs[cls].dataclass

\* the classes a program constructs the loader with
ConfigClasses == {"Config", "Tags", "int"}

Failed(exc) == [ok |-> FALSE, exc |-> exc, value |-> None]
Done(value) == [ok |-> TRUE, exc |-> "", value |-> Some(value)]

\* data_class(**field_values)
Instance(cls, values) ==
    [cls |-> cls,
     sub |-> [n \in {ClassDefs[cls].fields[i].name : i \in DOMAIN ClassDefs[cls].fields}
                |-> values[CHOOSE i \in DOMAIN values :
                               ClassDefs[cls].fields[i].name = n]]]

RECURSIVE FromDict(_, _), FromDictFields(_, _, _, _), FromDictItems(_, _, _)

\* the comprehension [_from_dict(type_arg, item) for item in ...] from item
\* i on, done the items already converted
FromDictItems(type_arg, items, done) ==
    IF Len(done) = Len(items) THEN Done(done)
    ELSE IF ~FromDict(type_arg, items[Len(done) + 1]).ok
    THEN FromDict(type_arg, items[Len(done) + 1])
    ELSE FromDictItems(type_arg, items,
             Append(done, FromDict(type_arg, items[Len(done) + 1]).value[1]))

\* the value of one field: a nested dataclass, a list of dataclasses (only
\* a list, an int or None is iterated here), or the value as it is
FieldValue(field, value) ==
    IF IsDataclass(field.arg) /\ field.kind = "dataclass"
    THEN FromDict(field.arg, value)
    ELSE IF field.kind = "list" /\ IsDataclass(field.arg)
    THEN CASE value.rt = "list" -> FromDictItems(field.arg, value.sub, <<>>)
           [] value.rt \in {"int", "NoneType"} -> Failed("TypeError")
    ELSE Done(value)

\* the loop of _from_dict over the fields from field i on; data is a dict,
\* a list (no element of which is the field's name), an int or None
FromDictFields(data_class, data, i, values) ==
    IF i > Len(ClassDefs[data_class].fields)
    THEN Done(Instance(data_class, values))
    ELSE IF data.rt \in {"int", "NoneType"} THEN Failed("TypeError")
    ELSE IF data.rt = "list" \/ ClassDefs[data_class].fields[i].name \notin DOMAIN data.sub
    THEN Failed("ValueError")
    ELSE IF ~FieldValue(ClassDefs[data_class].fields[i],
                        data.sub[ClassDefs[data_class].fields[i].name]).ok
    THEN FieldValue(ClassDefs[data_class].fields[i],
                    data.sub[ClassDefs[data_class].fields[i].name])
    ELSE FromDictFields(data_class, data, i + 1,
             Append(values,
                    FieldValue(ClassDefs[data_class].fields[i],
                               data.sub[ClassDefs[data_class].fields[i].name]).value[1]))

\* ConfigLoader._from_dict
FromDict(data_class, data) ==
    IF ~IsDataclass(data_class) THEN Failed("TypeError")
    ELSE FromDictFields(data_class, data, 1, <<>>)

\* the paths a program gives load_config, and what is there: a file whose
\* text YAML loads (yaml the node it gives), a file it cannot load, a
\* directory, nothing
StrNode(x) == [rt |-> "str", sub |-> x]
IntNode(x) == [rt |-> "int", sub |-> x]
DictNode(f) == [rt |-> "dict", sub |-> f]
ListNode(l) == [rt |-> "list", sub |-> l]
Loadable(yaml) == [kind |-> "file", loads |-> TRUE, yaml |-> Some(yaml)]
Disk ==
    [ a       |-> Loadable(DictNode([name |-> StrNode("n"),
                                     db |-> DictNode([port |-> IntNode(1)]),
                                     tags |-> ListNode(<<DictNode([port |-> IntNode(1)])>>)])),
      b       |-> Loadable(DictNode([name |-> StrNode("m"),
                                     db |-> DictNode([port |-> IntNode(2)]),
                                     tags |-> ListNode(<<>>)])),
      partial |-> Loadable(DictNode([name |-> StrNode("n"),
                                     db |-> IntNode(5)])),
      broken  |-> [kind |-> "file", loads |-> FALSE, yaml |-> None],
      dir     |-> [kind |-> "dir", loads |-> FALSE, yaml |-> None],
      missing |-> [kind |-> "absent", loads |-> FALSE, yaml |-> None] ]
Paths == DOMAIN Disk

\* the calls a program makes of the loader, at most
MaxCalls == 4

(***************************************************************************)
(* The loader's state: the class attribute _instance (None, or the number  *)
(* of the object __new__ made), the attributes of that object, the         *)
(* handlers of the logger, and trace, the calls made so far with what each *)
(* gave (history).                                                         *)
(***************************************************************************)
VARIABLES instance, initialized, config_class, config, handlers, trace
loaderVars == <<instance, initialized, config_class, config, handlers, trace>>

LoaderInit ==
    /\ instance = None
    /\ initialized = FALSE
    /\ config_class = None
    /\ config = None
    /\ handlers = 0
    /\ trace = <<>>

(***************************************************************************)
(* The state: the document at yaml_path, the files of the destination      *)
(* directory, the builders of the generator of the current run and where   *)
(* generate stands.  run numbers the run and outputs[r] holds the files    *)
(* run r wrote (history).                                                  *)
(***************************************************************************)
VARIABLES data, fs, builders, pc, idx, run, outputs
generatorVars == <<data, fs, builders, pc, idx, run, outputs>>
vars == <<generatorVars, loaderVars>>

\* the file system after open(path, "w") and write(content)
WriteFile(files, path, content) ==
    {f \in files : f.path # path} \cup {[path |-> path, content |-> content]}

\* dest_path / f"{name}.py"
OutputPath(builder) ==
    DestPath \o <<"/">> \o ToSnakeCase(builder.name) \o <<".", "p", "y">>

\* the orders in which iterating a set of strings may yield them
Orders(S) == {o \in [1..Cardinality(S) -> S] : Range(o) = S}

Init ==
    /\ data \in Documents
    /\ fs = {}
    /\ builders = <<>>
    /\ pc = "ready"
    /\ idx = 1
    /\ run = 1
    /\ outputs = [r \in {1, 2} |-> {}]
    /\ LoaderInit

\* generate after the walk: the root builder appended, or the exception
GenerateWalked(r) ==
    IF r.ok
    THEN /\ builders' = Append(r.builders, r.builder)
         /\ pc' = "writing"
    ELSE /\ builders' = r.builders
         /\ pc' = "failed"

\* generate, up to its loop over the builders: _read_yaml and the walk
Generate ==
    /\ pc = "ready"
    /\ GenerateWalked(GenerateDataclass(<<"c","o","n","f","i","g">>, data, <<>>,
                                        builders))
    /\ idx' = 1
    /\ UNCHANGED <<data, fs, run, outputs>>
    /\ UNCHANGED loaderVars

\* one turn of generate's loop: _write_to_file of builders[idx]
WriteToFile ==
    /\ pc = "writing"
    /\ \E order \in Orders(builders[idx].imports) :
         /\ fs' = WriteFile(fs, OutputPath(builders[idx]), Build(builders[idx], order))
         /\ outputs' = [outputs EXCEPT ![run] =
                           WriteFile(@, OutputPath(builders[idx]),
                                     Build(builders[idx], order))]
    /\ idx' = idx + 1
    /\ pc' = IF idx = Len(builders) THEN "done" ELSE "writing"
    /\ UNCHANGED <<data, builders, run>>
    /\ UNCHANGED loaderVars

\* the second run of the command line: a new DataclassGenerator on the same
\* document and destination
NewRun ==
    /\ pc \in {"done", "failed"}
    /\ run = 1
    /\ builders' = <<>>
    /\ pc' = "ready"
    /\ idx' = 1
    /\ run' = run + 1
    /\ UNCHANGED <<data, fs, outputs>>
    /\ UNCHANGED loaderVars

Next == Generate \/ WriteToFile \/ NewRun

Spec == Init /\ [][Next]_vars

(***************************************************************************)
(* A program that uses the loader: any calls, at most MaxCalls, of the     *)
(* constructor and, once a constructor has returned the object, of its     *)
(* methods.  The generator's variables stay as they start.                 *)
(***************************************************************************)
\* one call in trace: the operation and its argument; whether it returned,
\* the exception if not, the value if so; the object a constructor gave;
\* _config_class after the call; _config before and after it; whether the
\* file was opened
Call(op, arg, result, yielded, bound, before, after, read) ==
    [op |-> op, arg |-> arg, ok |-> result.ok, exc |-> result.exc,
     value |-> result.value, yielded |-> yielded, bound |-> bound,
     before |-> before, after |-> after, read |-> read]

\* ConfigLoader.__new__
New(current) == IF current = None THEN Some(1) ELSE current

\* ConfigLoader.__init__ raises: the object is new to it and the class is
\* no dataclass
InitRaises(cls) == ~initialized /\ ~IsDataclass(cls)
\* _config_class after __init__
InitConfigClass(cls) ==
    IF ~initialized /\ IsDataclass(cls) THEN Some(cls) ELSE config_class
\* the handlers of the logger after __init__
InitHandlers(cls) ==
    IF ~initialized /\ IsDataclass(cls) /\ handlers = 0 THEN 1 ELSE handlers

\* ConfigLoader(config_class): __new__, then __init__ on what it returned
Construct ==
    /\ Len(trace) < MaxCalls
    /\ \E cls \in ConfigClasses :
         /\ instance' = New(instance)
         /\ initialized' = TRUE
         /\ config_class' = InitConfigClass(cls)
         /\ handlers' = InitHandlers(cls)
         /\ trace' = Append(trace,
                Call("ConfigLoader", cls,
                     IF InitRaises(cls) THEN Failed("TypeError") ELSE Done(New(instance)),
                     IF InitRaises(cls) THEN None ELSE New(instance),
                     InitConfigClass(cls), config, config, FALSE))
    /\ UNCHANGED config
    /\ UNCHANGED generatorVars

\* the program holds the object: a constructor has returned it
HasLoader == \E i \in DOMAIN trace : trace[i].op = "ConfigLoader" /\ trace[i].ok

\* load_config with nothing cached: the checks of the path, the load of
\* the file, the read of self._config_class, _from_dict
LoadFresh(file) ==
    IF file.kind # "file" THEN Failed("FileNotFoundError")
    ELSE IF ~file.loads THEN Failed("YAMLError")
    ELSE IF config_class = None THEN Failed("AttributeError")
    ELSE FromDict(config_class[1], file.yaml[1])

\* load_config: what it gives
LoadResult(file) == IF config # None THEN Done(config[1]) ELSE LoadFresh(file)
\* whether load_config opens the file
LoadReads(file) == config = None /\ file.kind = "file"

LoadConfig ==
    /\ Len(trace) < MaxCalls
    /\ HasLoader
    /\ \E path \in Paths :
         /\ config' = IF LoadResult(Disk[path]).ok THEN LoadResult(Disk[path]).value
                      ELSE config
         /\ trace' = Append(trace,
                Call("load_config", path, LoadResult(Disk[path]), None, config_class,
                     config,
                     IF LoadResult(Disk[path]).ok THEN LoadResult(Disk[path]).value
                     ELSE config,
                     LoadReads(Disk[path])))
    /\ UNCHANGED <<instance, initialized, config_class, handlers>>
    /\ UNCHANGED generatorVars

GetConfig ==
    /\ Len(trace) < MaxCalls
    /\ HasLoader
    /\ trace' = Append(trace,
           Call("get_config", "",
                IF config = None THEN Failed("RuntimeError") ELSE Done(config[1]),
                None, config_class, config, config, FALSE))
    /\ UNCHANGED <<instance, initialized, config_class, config, handlers>>
    /\ UNCHANGED generatorVars

ResetConfig ==
    /\ Len(trace) < MaxCalls
    /\ HasLoader
    /\ config' = None
    /\ trace' = Append(trace,
           Call("reset_config", "", [ok |-> TRUE, exc |-> "", value |-> None],
                None, config_class, config, None, FALSE))
    /\ UNCHANGED <<instance, initialized, config_class, handlers>>
    /\ UNCHANGED generatorVars

\* no document is generated from while the loader is used
LoaderProgramInit ==
    /\ data = <<>>
    /\ fs = {}
    /\ builders = <<>>
    /\ pc = "ready"
    /\ idx = 1
    /\ run = 1
    /\ outputs = [r \in {1, 2} |-> {}]
    /\ LoaderInit

LoaderNext == Construct \/ LoadConfig \/ GetConfig \/ ResetConfig

LoaderSpec == LoaderProgramInit /\ [][LoaderNext]_vars

(***************************************************************************)
(* What the claims speak of.                                               *)
(***************************************************************************)
\* generate has walked the whole tree: its builders are the records emitted
Walked == pc \in {"writing", "done"}

\* the item of a map with the given key
ItemOf(items, key) == items[CHOOSE i \in DOMAIN items : items[i].key = key]

\* the map a record is made from at item it: the map itself, or the first
\* element of the list
HasNestedMap(it) ==
    \/ it.value.rt = "dict"
    \/ it.value.rt = "list" /\ it.value.sub # <<>> /\ it.value.sub[1].rt = "dict"
NestedMap(it) ==
    IF it.value.rt = "dict" THEN it.value.sub ELSE it.value.sub[1].sub

\* the map at a key path below the map items
RECURSIVE MapAt(_, _)
MapAt(items, path) ==
    IF path = <<>> THEN items
    ELSE MapAt(NestedMap(ItemOf(items, path[1])), Tail(path))

\* the key paths of the maps the walk builds a record from, below prefix
RECURSIVE VisitedPaths(_, _)
VisitedPaths(items, prefix) ==
    {prefix} \cup UNION { VisitedPaths(NestedMap(items[i]), prefix \o <<items[i].key>>) :
                          i \in {x \in DOMAIN items : HasNestedMap(items[x])} }

\* every item of every map of the tree, visited or not
RECURSIVE ItemsOfMap(_), ItemsOfValue(_)
ItemsOfValue(value) ==
    IF value.rt = "dict" THEN ItemsOfMap(value.sub)
    ELSE IF value.rt = "list"
    THEN UNION {ItemsOfValue(value.sub[i]) : i \in DOMAIN value.sub}
    ELSE {}
ItemsOfMap(items) ==
    Range(items) \cup UNION {ItemsOfValue(items[i].value) : i \in DOMAIN items}

\* the items of the maps the walk visits
VisitedItems == UNION {Range(MapAt(data, p)) : p \in VisitedPaths(data, <<>>)}

SrcMap(builder) == MapAt(data, builder.src)
BuildersAt(path) == {i \in DOMAIN builders : builders[i].src = path}

StrStr == <<"s","t","r">>
IntStr == <<"i","n","t">>
ListStr == <<"l","i","s","t">>
ColonSpace == <<":", " ">>
HashStr == <<"#"," ","s","t","r">>

\* the type-style name of each key of the model, written out
KeyTypeName(key) ==
    CASE key = <<"a","_","b">> -> <<"A","B">>
      [] key = <<"e","v","e","n","t">> -> <<"E","v","e","n","t">>

\* the import statement of the record of a key, written out
KeyImport(key) ==
    <<"f","r","o","m"," ","s","r","c",".","c","o","n","f","i","g",".">> \o key
    \o <<" ","i","m","p","o","r","t"," ">> \o KeyTypeName(key)

(***************************************************************************)
(* C1.  A field whose comment is not empty and resolves to a type is       *)
(* emitted with exactly the type the comment resolves to, whatever its     *)
(* value is: a scalar, a map or a list.  "# str" on an int gives str.      *)
(***************************************************************************)
CommentTypeWins ==
    Walked =>
    \A i \in DOMAIN builders :
        /\ Len(builders[i].fields) = Len(SrcMap(builders[i]))
        /\ Len(builders[i].parameters) = Len(SrcMap(builders[i]))
        /\ \A j \in DOMAIN SrcMap(builders[i]) :
              LET it == SrcMap(builders[i])[j]
              IN  /\ (Truthy(it.comment) /\ CommentParse(it.comment).ok) =>
                        /\ builders[i].fields[j].type = CommentParse(it.comment).ta
                        /\ builders[i].parameters[j] =
                               it.key \o ColonSpace
                               \o ToParamterizedType(CommentParse(it.comment).ta)
                  /\ it.comment = Some(HashStr) =>
                        builders[i].parameters[j] = it.key \o ColonSpace \o StrStr

\* an int with the comment "# str" and a map with a comment have been
\* emitted as the comment says
CommentTypeWinsWitness ==
    /\ pc = "done"
    /\ \E i \in DOMAIN builders : \E j \in DOMAIN SrcMap(builders[i]) :
          LET it == SrcMap(builders[i])[j]
          IN  /\ it.value.rt = "int"
              /\ it.comment = Some(HashStr)
              /\ builders[i].fields[j].type = TypeAnnotation(StrStr, None)
              /\ builders[i].fields[j].type # ValueParse(it.value)
              /\ \E f \in fs : \E l \in DOMAIN f.content :
                    f.content[l] = Indent \o it.key \o ColonSpace \o StrStr

(***************************************************************************)
(* C2.  No two records emitted in one run have the same type-style name,   *)
(* unless they are made from the map at the same key path.                 *)
(***************************************************************************)
NoNameCollision ==
    Walked =>
    \A i, j \in DOMAIN builders :
        builders[i].src # builders[j].src =>
            ToPascalCase(builders[i].name) # ToPascalCase(builders[j].name)

(***************************************************************************)
(* C3.  The records of a run are closed: whenever the type of a field of   *)
(* an emitted record names a record type, as its base or as a parameter of *)
(* list, the record imports a record of exactly that type-style name and a *)
(* file defining a record of that name is written in the run.              *)
(***************************************************************************)
\* the names a type can use with no record behind them
BuiltinTypeNames ==
    { <<>>, StrStr, IntStr, ListStr, <<"A","n","y">>, <<"f","l","o","a","t">>,
      <<"b","o","o","l">>, <<"d","i","c","t">> }

\* the record types a type descriptor names
RecordNames(ta) ==
    (IF ~Truthy(ta.type_params) THEN {ta.generic_type}
     ELSE IF ta.generic_type = ListStr THEN Range(ta.type_params[1])
     ELSE {}) \ BuiltinTypeNames

\* the name an import statement imports: what follows its last blank
ImportedName(line) == Split(line, " ")[Len(Split(line, " "))]

\* the names of the classes a file defines
DefinedNames(content) ==
    { Slice(content[l], 7, Len(content[l]) - 1) :
        l \in {x \in DOMAIN content :
                  /\ Len(content[x]) >= 7
                  /\ Slice(content[x], 1, 6) = <<"c","l","a","s","s"," ">>} }

\* C3: every record type a field names is imported by the record and
\* defined by a file of the run
ClosedRecordSet ==
    pc = "done" =>
    \A i \in DOMAIN builders : \A j \in DOMAIN builders[i].fields :
        \A n \in RecordNames(builders[i].fields[j].type) :
            /\ \E line \in builders[i].imports \ DefaultImports :
                  ImportedName(line) = n
            /\ \E f \in outputs[run] : n \in DefinedNames(f.content)

(***************************************************************************)
(* C4.  A comment that is not empty and holds no identifier character      *)
(* makes generate fail before it writes anything.  As claimed: wherever    *)
(* the comment is in the tree.  As amended: wherever the walk comes, which *)
(* is the items of the root map, of a map that is the value of such an     *)
(* item, and of a map that is the first element of a list that is.         *)
(***************************************************************************)
NoIdentifier(comment) ==
    /\ Truthy(comment)
    /\ \A i \in DOMAIN comment[1] : ~IsWordChar(comment[1][i])

NothingWritten == fs = {} /\ \A r \in DOMAIN outputs : outputs[r] = {}

\* C4 as made: a comment with no identifier, anywhere in the tree, makes
\* the run fail with nothing written
MalformedAnywhereFails ==
    (\E it \in ItemsOfMap(data) : NoIdentifier(it.comment)) =>
        (pc \in {"ready", "failed"} /\ NothingWritten)

\* C4 as amended: a comment with no identifier on an item the walk visits
\* makes the run fail with nothing written; and no file is written unless
\* the walk has built a record for every map it visits
MalformedVisitedFails ==
    /\ (\E it \in VisitedItems : NoIdentifier(it.comment)) =>
           (pc \in {"ready", "failed"} /\ NothingWritten)
    /\ outputs[run] # {} =>
           (Walked /\ \A p \in VisitedPaths(data, <<>>) : BuildersAt(p) # {})

MalformedVisitedFailsWitness ==
    /\ pc = "failed"
    /\ run = 2
    /\ \E it \in VisitedItems : NoIdentifier(it.comment)
    /\ builders # <<>>
    /\ NothingWritten

(***************************************************************************)
(* C5.  A list whose first element is a map and whose comment is           *)
(* list[X]: the record made from the first element is named X in lower     *)
(* case and not by the key, the enclosing record imports that record, and  *)
(* the field has the type as the comment writes it.                        *)
(***************************************************************************)
\* the comment is list[X], X an identifier: X, or None
ListParameter(comment) ==
    IF /\ Truthy(comment)
       /\ Len(comment[1]) >= 7
       /\ Slice(comment[1], 1, 5) = <<"l","i","s","t","[">>
       /\ comment[1][Len(comment[1])] = "]"
       /\ \A i \in 6..(Len(comment[1]) - 1) : IsWordChar(comment[1][i])
    THEN Some(Slice(comment[1], 6, Len(comment[1]) - 1))
    ELSE None

\* the lower-case form of the names the comments of the model give
LowerCased(x) ==
    CASE x = <<"E","v","e","n","t">> -> <<"e","v","e","n","t">>
      [] x = <<"M","y","E","v","e","n","t">> -> <<"m","y","e","v","e","n","t">>

\* the type-style name of those lower-case names
LowerCasedTypeName(x) ==
    CASE x = <<"E","v","e","n","t">> -> <<"E","v","e","n","t">>
      [] x = <<"M","y","E","v","e","n","t">> -> <<"M","y","e","v","e","n","t">>

IsRenamedList(it) ==
    /\ it.value.rt = "list"
    /\ it.value.sub # <<>>
    /\ it.value.sub[1].rt = "dict"
    /\ ListParameter(it.comment) # None

\* C5: list[X] on a list of maps names the nested record x, imports it
\* and types the field list[X]
ListOfMapsRenamed ==
    Walked =>
    \A i \in DOMAIN builders : \A j \in DOMAIN SrcMap(builders[i]) :
        LET it == SrcMap(builders[i])[j]
            x == ListParameter(it.comment)[1]
            nested == BuildersAt(builders[i].src \o <<it.key>>)
        IN  IsRenamedList(it) =>
              /\ Cardinality(nested) = 1
              /\ \A n \in nested :
                    /\ builders[n].name = LowerCased(x)
                    /\ [f \in DOMAIN builders[n].fields |-> builders[n].fields[f].key]
                         = [f \in DOMAIN it.value.sub[1].sub |-> it.value.sub[1].sub[f].key]
              /\ <<"f","r","o","m"," ","s","r","c",".","c","o","n","f","i","g",".">>
                    \o LowerCased(x) \o <<" ","i","m","p","o","r","t"," ">>
                    \o LowerCasedTypeName(x) \in builders[i].imports
              /\ builders[i].parameters[j] = it.key \o ColonSpace \o it.comment[1]

ListOfMapsRenamedWitness ==
    /\ pc = "done"
    /\ \E i \in DOMAIN builders : \E j \in DOMAIN SrcMap(builders[i]) :
          LET it == SrcMap(builders[i])[j]
          IN  /\ IsRenamedList(it)
              /\ it.comment = Some(<<"l","i","s","t","[","E","v","e","n","t","]">>)
              /\ it.key # <<"e","v","e","n","t">>
              /\ Len(it.value.sub) = 2
              /\ it.value.sub[1].sub # <<>>
              /\ \E n \in DOMAIN builders :
                    /\ builders[n].name = <<"e","v","e","n","t">>
                    /\ Len(builders[n].parameters) = Len(it.value.sub[1].sub)
              /\ \E f \in fs :
                    f.path = DestPath \o <<"/","e","v","e","n","t",".","p","y">>

(***************************************************************************)
(* C6.  A list with no comment that is empty or starts with a scalar: no   *)
(* record is made for it, the enclosing record imports nothing for it, and *)
(* the field has the type list[T], T the type of the first element, or Any *)
(* for the empty list.                                                     *)
(***************************************************************************)
IsScalarList(it) ==
    /\ it.value.rt = "list"
    /\ it.comment = None
    /\ (it.value.sub = <<>> \/ it.value.sub[1].rt \in ScalarTypes)

ElementTypeName(value) ==
    IF value.sub = <<>> THEN <<"A","n","y">>
    ELSE IF value.sub[1].rt = "int" THEN IntStr
    ELSE StrStr

\* C6: a list of scalars, or an empty list, with no comment is list[T] or
\* list[Any], with no record and no import
ScalarListTyped ==
    Walked =>
    \A i \in DOMAIN builders :
        /\ \A j \in DOMAIN SrcMap(builders[i]) :
              LET it == SrcMap(builders[i])[j]
              IN  IsScalarList(it) =>
                    /\ BuildersAt(builders[i].src \o <<it.key>>) = {}
                    /\ builders[i].fields[j].type =
                          TypeAnnotation(ListStr, Some(<<ElementTypeName(it.value)>>))
                    /\ builders[i].parameters[j] =
                          it.key \o ColonSpace \o ListStr \o <<"[">>
                          \o ElementTypeName(it.value) \o <<"]">>
        \* every import of the record is that of a record made for an item
        /\ \A line \in builders[i].imports \ DefaultImports :
              \E j \in DOMAIN SrcMap(builders[i]) :
                  /\ HasNestedMap(SrcMap(builders[i])[j])
                  /\ \E n \in BuildersAt(builders[i].src
                                          \o <<SrcMap(builders[i])[j].key>>) :
                        line = ImportLine(DestPath, builders[n].name)

ScalarListTypedWitness ==
    /\ pc = "done"
    /\ Len(builders) = 1
    /\ builders[1].imports = DefaultImports
    /\ \E j, k \in DOMAIN data :
          /\ IsScalarList(data[j]) /\ data[j].value.sub = <<>>
          /\ builders[1].parameters[j] =
                data[j].key \o <<":"," ","l","i","s","t","[","A","n","y","]">>
          /\ IsScalarList(data[k]) /\ data[k].value.sub # <<>>
          /\ data[k].value.sub[1].rt = "int"
          /\ builders[1].parameters[k] =
                data[k].key \o <<":"," ","l","i","s","t","[","i","n","t","]">>

(***************************************************************************)
(* C7.  A map-valued field k with no comment: exactly one record is made   *)
(* from the map, named k, with the map's items as its fields in their      *)
(* order; the enclosing record imports it and types k with the type-style  *)
(* name of k.  The root record, config, is registered too, after the       *)
(* others: a run registers one record for each map the walk visits.        *)
(***************************************************************************)
IsPlainMap(it) == it.value.rt = "dict" /\ ~Truthy(it.comment)

KeysOf(items) == [f \in DOMAIN items |-> items[f].key]

\* C7: a map-valued field with no comment gives one record named by the
\* key, imported and used as the type; config is registered last
NestedMapRecord ==
    Walked =>
    /\ \A i \in DOMAIN builders : \A j \in DOMAIN SrcMap(builders[i]) :
          LET it == SrcMap(builders[i])[j]
              nested == BuildersAt(builders[i].src \o <<it.key>>)
          IN  IsPlainMap(it) =>
                /\ Cardinality(nested) = 1
                /\ \A n \in nested :
                      /\ builders[n].name = it.key
                      /\ KeysOf(builders[n].fields) = KeysOf(it.value.sub)
                      /\ n < i
                /\ KeyImport(it.key) \in builders[i].imports
                /\ builders[i].fields[j].type =
                      TypeAnnotation(KeyTypeName(it.key), None)
                /\ builders[i].parameters[j] =
                      it.key \o ColonSpace \o KeyTypeName(it.key)
    /\ builders[Len(builders)].src = <<>>
    /\ builders[Len(builders)].name = <<"c","o","n","f","i","g">>
    /\ Len(builders) = Cardinality(VisitedPaths(data, <<>>))
    /\ \A p \in VisitedPaths(data, <<>>) : Cardinality(BuildersAt(p)) = 1

\* {k: {x: "x", y: 1}} has given two records and two files
NestedMapRecordWitness ==
    /\ pc = "done"
    /\ Len(data) = 1
    /\ IsPlainMap(data[1])
    /\ data[1].comment = None
    /\ Len(data[1].value.sub) = 2
    /\ data[1].value.sub[1].value.rt = "str"
    /\ data[1].value.sub[2].value.rt = "int"
    /\ Len(builders) = 2
    /\ builders[1].parameters =
          << data[1].value.sub[1].key \o ColonSpace \o StrStr,
             data[1].value.sub[2].key \o ColonSpace \o IntStr >>
    /\ Cardinality(fs) = 2

(***************************************************************************)
(* C8.  Two runs on the same document and destination write the same       *)
(* files with the same content; in a file the imports are in strictly      *)
(* ascending order (sorted, none twice) and the fields in the order of the *)
(* items of the map.                                                       *)
(***************************************************************************)
\* the lines of a file before its first empty line: the imports
ImportLines(content) ==
    Slice(content, 1,
          (CHOOSE l \in DOMAIN content :
               content[l] = <<>> /\ \A x \in 1..(l-1) : content[x] # <<>>) - 1)

\* the lines of a file after the line "class ...:": the parameters
ParameterLines(content) == Slice(content, Len(ImportLines(content)) + 4, Len(content))

\* C8: a second run writes what the first wrote; imports ascending, fields
\* in the order of the items
Deterministic ==
    /\ (run = 2 /\ pc \in {"done", "failed"}) => outputs[2] = outputs[1]
    /\ \A r \in DOMAIN outputs : \A f \in outputs[r] :
          \A x, y \in DOMAIN ImportLines(f.content) :
              x < y => StrLess(ImportLines(f.content)[x], ImportLines(f.content)[y])
    /\ pc = "done" =>
          \A i \in DOMAIN builders :
              \* the file of the record, unless a later record has the same name
              (\A k \in (i+1)..Len(builders) : builders[k].name # builders[i].name) =>
                  \E f \in outputs[run] :
                      /\ f.path = OutputPath(builders[i])
                      /\ IF SrcMap(builders[i]) = <<>>
                         THEN ParameterLines(f.content) = <<Indent>>
                         ELSE /\ Len(ParameterLines(f.content)) = Len(SrcMap(builders[i]))
                              /\ \A j \in DOMAIN SrcMap(builders[i]) :
                                    Slice(ParameterLines(f.content)[j], 1,
                                          Len(SrcMap(builders[i])[j].key) + 5)
                                    = Indent \o SrcMap(builders[i])[j].key \o <<":">>

\* the second run has written, as the first, a file with three imports
\* and two fields
DeterministicWitness ==
    /\ run = 2
    /\ pc = "done"
    /\ outputs[2] = outputs[1]
    /\ \E f \in outputs[2] :
          /\ Len(ImportLines(f.content)) >= 3
          /\ Len(ParameterLines(f.content)) = 2

(***************************************************************************)
(* C9.  A field whose comment is absent or the empty string has the type   *)
(* its value gives (the scalar's type, the type-style name of the key,     *)
(* list[...]), never the unset descriptor whose base is ''.                *)
(***************************************************************************)
\* the type a value gives to the item it, with no comment
ValueDerivedType(it) ==
    IF it.value.rt = "dict" THEN TypeAnnotation(KeyTypeName(it.key), None)
    ELSE IF it.value.rt = "list"
    THEN TypeAnnotation(ListStr,
             Some(<<IF it.value.sub = <<>> THEN <<"A","n","y">>
                    ELSE IF it.value.sub[1].rt = "dict" THEN KeyTypeName(it.key)
                    ELSE TypeName(it.value.sub[1])>>))
    ELSE TypeAnnotation(TypeName(it.value), None)

\* C9: with no comment, or an empty one, the type is the one the value
\* gives and its base is not empty
EmptyCommentInfers ==
    Walked =>
    \A i \in DOMAIN builders : \A j \in DOMAIN SrcMap(builders[i]) :
        ~Truthy(SrcMap(builders[i])[j].comment) =>
            /\ builders[i].fields[j].type.generic_type # <<>>
            /\ builders[i].fields[j].type = ValueDerivedType(SrcMap(builders[i])[j])

(***************************************************************************)
(* C10.  As claimed: a type descriptor has parameters only when its base   *)
(* is list.  As amended: that holds of the descriptors inferred from a     *)
(* value; a descriptor resolved from a comment has parameters exactly when *)
(* the comment's first identifier is followed at once by a bracketed,      *)
(* non-empty parameter list, whatever that identifier is.                  *)
(***************************************************************************)
\* the first identifier of the comment is followed at once by "[", one
\* character or more, and "]"
IsBracketed(text) ==
    \E a, b \in DOMAIN text :
        /\ text[a] = "["
        /\ text[b] = "]"
        /\ b > a + 1
        /\ \A x \in (a+1)..(b-1) : text[x] # "]"
        /\ a > 1
        /\ \E w \in 1..(a-1) :
              /\ \A x \in w..(a-1) : IsWordChar(text[x])
              /\ \A x \in 1..(w-1) : ~IsWordChar(text[x])

\* C10 as made: a type has parameters only when its base is list
ParamsOnlyOnList ==
    \A i \in DOMAIN builders : \A j \in DOMAIN builders[i].fields :
        Truthy(builders[i].fields[j].type.type_params) =>
            builders[i].fields[j].type.generic_type = ListStr

\* C10 as amended: a type inferred from a value has parameters only when
\* it is list[...]; a type resolved from a comment has them exactly when
\* the comment writes identifier[...]
ParamsOnlyOnListOrComment ==
    \A i \in DOMAIN builders : \A j \in DOMAIN builders[i].fields :
        LET it == SrcMap(builders[i])[j]
            type == builders[i].fields[j].type
        IN  /\ it.key = builders[i].fields[j].key
            /\ ~Truthy(it.comment) =>
                  (Truthy(type.type_params) =>
                       type.generic_type = ListStr /\ it.value.rt = "list")
            /\ Truthy(it.comment) =>
                  (Truthy(type.type_params) <=> IsBracketed(it.comment[1]))
            /\ type.type_params # None => Truthy(type.type_params)

\* str[int], resolved from a comment, is emitted on a field of a written
\* class
ParamsOnlyOnListOrCommentWitness ==
    /\ pc = "done"
    /\ outputs[run] # {}
    /\ \E i \in DOMAIN builders : \E j \in DOMAIN builders[i].fields :
          /\ SrcMap(builders[i])[j].comment
                = Some(<<"#"," ","s","t","r","[","i","n","t","]">>)
          /\ builders[i].fields[j].type = TypeAnnotation(StrStr, Some(<<IntStr>>))

(***************************************************************************)
(* C11.  Whatever calls a program makes of the loader: every constructor   *)
(* that returns gives the same object, bound to the class of the first     *)
(* constructor that returned; get_config raises RuntimeError exactly when  *)
(* nothing is cached (no load_config has succeeded since the start or      *)
(* since the last reset_config) and otherwise returns what is cached;      *)
(* load_config with something cached returns it and opens no file; a       *)
(* load_config that fails leaves the cache as it was.                      *)
(***************************************************************************)
\* the calls of an operation in trace
CallsOf(op) == {i \in DOMAIN trace : trace[i].op = op}

\* the load_config calls before call i that returned with no reset_config
\* between them and call i
LoadsFor(i) ==
    {k \in CallsOf("load_config") :
        /\ k < i
        /\ trace[k].ok
        /\ \A j \in CallsOf("reset_config") : ~(k < j /\ j < i)}
\* a configuration is cached when call i is made, and which
Cached(i) == LoadsFor(i) # {}
CachedValue(i) == trace[CHOOSE k \in LoadsFor(i) : \A x \in LoadsFor(i) : k <= x].value

\* the first constructor that returned
FirstConstructed ==
    CHOOSE k \in CallsOf("ConfigLoader") :
        trace[k].ok /\ \A x \in CallsOf("ConfigLoader") : trace[x].ok => k <= x

SameInstanceFirstClass ==
    \A i \in CallsOf("ConfigLoader") :
        trace[i].ok =>
            /\ trace[i].yielded = trace[FirstConstructed].yielded
            /\ trace[i].bound = Some(trace[FirstConstructed].arg)

GetConfigExact ==
    \A i \in CallsOf("get_config") :
        /\ ~Cached(i) <=> (~trace[i].ok /\ trace[i].exc = "RuntimeError")
        /\ Cached(i) => (trace[i].ok /\ trace[i].value = CachedValue(i))

CachedLoadReadsNothing ==
    \A i \in CallsOf("load_config") :
        Cached(i) =>
            /\ trace[i].ok
            /\ trace[i].value = CachedValue(i)
            /\ ~trace[i].read
            /\ trace[i].after = trace[i].before

FailedLoadKeepsCache ==
    /\ \A i \in CallsOf("load_config") :
          ~trace[i].ok => trace[i].after = trace[i].before
    /\ config = IF Cached(Len(trace) + 1) THEN CachedValue(Len(trace) + 1) ELSE None

\* C11: one object bound to the first class, get_config raising exactly
\* when nothing is cached, a cached load opening no file, a failed load
\* leaving the cache as it was
LoaderContract ==
    /\ SameInstanceFirstClass
    /\ GetConfigExact
    /\ CachedLoadReadsNothing
    /\ FailedLoadKeepsCache

====
